---- MODULE Spec2Model ----
(***************************************************************************)
(* Model of the registration server: warp route POST /register ->          *)
(* register_user (src/main.rs), writing into the MongoDB collection        *)
(* "users" of database "rust_server" (src/database.rs).                    *)
(*                                                                         *)
(* Every request runs register_user as its own future on the tokio         *)
(* runtime; the futures share nothing but the collection.  The three       *)
(* library calls of register_user return a Result that the code unwraps:   *)
(* the Err outcome panics, which unwinds the request's task (no response   *)
(* is written, the connection is dropped) and leaves the other tasks       *)
(* running.                                                                *)
(***************************************************************************)
EXTENDS Integers, Sequences, FiniteSets, TLC

\* ---------------------------------------------------------------- bounds

\* Number of HTTP requests the server receives in a run.
NumReqs == 2

\* Number of times the wall clock is observed to advance in a run.
MaxTicks == 1

\* Clock resolution: clock units per second (Utc::now() is finer than the
\* whole seconds of DateTime::timestamp()).
TicksPerSec == 2

\* ------------------------------------------------------------- constants

\* bcrypt::DEFAULT_COST
DEFAULT_COST == 12

\* Duration::hours(24)
TTL_HOURS == 24

SecsPerHour == 3600

\* JWT_SECRET
JWT_SECRET == "your_secret_key"

TTL_SECS == TTL_HOURS * SecsPerHour

Reqs == 1..NumReqs

\* Request bodies that deserialize into RegisterRequest.  warp::body::json()
\* accepts any JSON object with two string fields; it does not look at what
\* the strings hold.
Bodies ==
    { [email |-> "a@b.com", password |-> "Secret123!"],
      [email |-> "a@b.com", password |-> "pw"],
      [email |-> "",        password |-> "Secret123!"] }

\* Salts bcrypt may draw for one call.
Salts == {"s1", "s2"}

NoReq == [email |-> "", password |-> ""]

\* Claims { email, exp }
Claims(email, exp) == [email |-> email, exp |-> exp]

NoToken == [alg |-> "none", claims |-> Claims("", 0), key |-> ""]

NoResponse == [status |-> 0, token |-> NoToken]

\* ------------------------------------------------------- pure functions

\* bcrypt::hash(password, cost): the modular-crypt string "$2b$<cost>$<salt><digest>";
\* the digest is kept symbolic, as the term D(salt,password).
hash(password, cost, salt) ==
    "$2b$" \o ToString(cost) \o "$" \o salt \o "D(" \o salt \o "," \o password \o ")"

\* DateTime::timestamp(): whole seconds of an instant given in clock units.
timestamp(t) == t \div TicksPerSec

\* Variant of expiration that forgets to add the 24 hours.
ExpirationNoTtl(t) == t

\* Utc::now() + Duration::hours(24), for now = t.
expiration(t) == t + TTL_SECS * TicksPerSec

\* jsonwebtoken::encode(&Header::default(), &claims, &EncodingKey::from_secret(key)):
\* header HS256, the claims, and the HMAC of both under the key (symbolic).
encode(claims, key) == [alg |-> "HS256", claims |-> claims, key |-> key]

\* ---------------------------------------------------------------- state

VARIABLES
    pc,          \* where each request's register_user future stands
    req,         \* the deserialized RegisterRequest of each request
    hashed,      \* hashed_password, while the future holds it
    store,       \* the documents of the users collection
    uniqueIndex, \* whether the collection carries a unique index on email
    token,       \* the token local of each future
    response,    \* what was written back to the client
    panicAt,     \* the unwrap that panicked, if one did
    steps,       \* history: the steps each invocation has completed
    issuedAt,    \* history: the clock when each token was built
    now,         \* the wall clock, in clock units
    ticks        \* history: how often the clock advanced

vars == <<pc, req, hashed, store, uniqueIndex, token, response, panicAt,
          steps, issuedAt, now, ticks>>

\* The documents with a given email.
WithEmail(e) == {u \in store : u.email = e}

\* database::get_collection(): the handle to rust_server.users.  Nothing is
\* created or configured: the collection is whatever the database holds, with
\* or without a unique index on email.
get_collection ==
    /\ store = {}
    /\ uniqueIndex \in BOOLEAN

Init ==
    /\ get_collection
    /\ pc = [r \in Reqs |-> "idle"]
    /\ req = [r \in Reqs |-> NoReq]
    /\ hashed = [r \in Reqs |-> ""]
    /\ token = [r \in Reqs |-> NoToken]
    /\ response = [r \in Reqs |-> NoResponse]
    /\ panicAt = [r \in Reqs |-> "none"]
    /\ steps = [r \in Reqs |-> <<>>]
    /\ issuedAt = [r \in Reqs |-> 0]
    /\ now = 0
    /\ ticks = 0

\* --------------------------------------------------------------- actions

\* The route: path "register", POST, a JSON body that deserializes into
\* RegisterRequest; register_user is then called with a clone of the handle.
Receive(r) ==
    /\ pc[r] = "idle"
    /\ \E body \in Bodies : req' = [req EXCEPT ![r] = body]
    /\ pc' = [pc EXCEPT ![r] = "hash"]
    /\ UNCHANGED <<hashed, store, uniqueIndex, token, response, panicAt,
                   steps, issuedAt, now, ticks>>

\* A body that does not deserialize is rejected by warp::body::json():
\* register_user is not called, warp answers 400.
RejectBody(r) ==
    /\ pc[r] = "idle"
    /\ pc' = [pc EXCEPT ![r] = "done"]
    /\ response' = [response EXCEPT ![r] = [status |-> 400, token |-> NoToken]]
    /\ UNCHANGED <<req, hashed, store, uniqueIndex, token, panicAt,
                   steps, issuedAt, now, ticks>>

\* A panicking unwrap: the future is dropped with its locals, nothing is
\* written to the client.
Panic(r, at) ==
    /\ pc' = [pc EXCEPT ![r] = "aborted"]
    /\ panicAt' = [panicAt EXCEPT ![r] = at]
    /\ hashed' = [hashed EXCEPT ![r] = ""]

\* let hashed_password = hash(&user.password, DEFAULT_COST).unwrap();   (Ok)
HashOk(r) ==
    /\ pc[r] = "hash"
    /\ \E s \in Salts :
          hashed' = [hashed EXCEPT ![r] = hash(req[r].password, DEFAULT_COST, s)]
    /\ pc' = [pc EXCEPT ![r] = "insert"]
    /\ steps' = [steps EXCEPT ![r] = Append(@, "hash")]
    /\ UNCHANGED <<req, store, uniqueIndex, token, response, panicAt,
                   issuedAt, now, ticks>>

\* ... (Err: the unwrap panics)
HashErr(r) ==
    /\ pc[r] = "hash"
    /\ Panic(r, "hash")
    /\ UNCHANGED <<req, store, uniqueIndex, token, response,
                   steps, issuedAt, now, ticks>>

\* Variant of NewUser that stores the request's password as received.
NewUserPlain(r) == [id |-> r, email |-> req[r].email, password |-> req[r].password]

\* models::User { email: user.email.clone(), password: hashed_password },
\* with the _id the driver gives the document (here the request's number).
NewUser(r) == [id |-> r, email |-> req[r].email, password |-> hashed[r]]

\* collection.insert_one(new_user, None) is sent; the future awaits the reply.
InsertSend(r) ==
    /\ pc[r] = "insert"
    /\ pc' = [pc EXCEPT ![r] = "await"]
    /\ UNCHANGED <<req, hashed, store, uniqueIndex, token, response, panicAt,
                   steps, issuedAt, now, ticks>>

\* The store's replies to insert_one.  Without a unique index on email the
\* write is accepted whatever the collection holds.
StoreInsertOk(r) ==
    /\ pc[r] = "await"
    /\ ~uniqueIndex \/ WithEmail(req[r].email) = {}
    /\ store' = store \cup {NewUser(r)}
    /\ hashed' = [hashed EXCEPT ![r] = ""]
    /\ pc' = [pc EXCEPT ![r] = "token"]
    /\ steps' = [steps EXCEPT ![r] = Append(@, "persist")]
    /\ UNCHANGED <<req, uniqueIndex, token, response, panicAt,
                   issuedAt, now, ticks>>

\* With a unique index a second document for the email is refused with a
\* duplicate-key write error: insert_one returns Err, the unwrap panics.
StoreInsertDup(r) ==
    /\ pc[r] = "await"
    /\ uniqueIndex /\ WithEmail(req[r].email) # {}
    /\ Panic(r, "insert_dup")
    /\ UNCHANGED <<req, store, uniqueIndex, token, response,
                   steps, issuedAt, now, ticks>>

\* Variant of StoreInsertErr that drops the Err and carries on.
StoreInsertErrIgnored(r) ==
    /\ pc[r] = "await"
    /\ hashed' = [hashed EXCEPT ![r] = ""]
    /\ pc' = [pc EXCEPT ![r] = "token"]
    /\ UNCHANGED <<req, store, uniqueIndex, token, response, panicAt,
                   steps, issuedAt, now, ticks>>

\* Any other driver error (no server selected, connection lost): Err, panic.
StoreInsertErr(r) ==
    /\ pc[r] = "await"
    /\ Panic(r, "insert_err")
    /\ UNCHANGED <<req, store, uniqueIndex, token, response,
                   steps, issuedAt, now, ticks>>

\* let expiration = Utc::now() + Duration::hours(24);
\* let claims = Claims { email: user.email, exp: expiration.timestamp() as usize };
\* let token = encode(..).unwrap();                                     (Ok)
IssueOk(r) ==
    /\ pc[r] = "token"
    /\ token' = [token EXCEPT ![r] =
                    encode(Claims(req[r].email, timestamp(expiration(now))), JWT_SECRET)]
    /\ issuedAt' = [issuedAt EXCEPT ![r] = now]
    /\ pc' = [pc EXCEPT ![r] = "respond"]
    /\ steps' = [steps EXCEPT ![r] = Append(@, "issue")]
    /\ UNCHANGED <<req, hashed, store, uniqueIndex, response, panicAt,
                   now, ticks>>

\* ... (Err: the unwrap panics; the document inserted before stays)
IssueErr(r) ==
    /\ pc[r] = "token"
    /\ Panic(r, "token")
    /\ UNCHANGED <<req, store, uniqueIndex, token, response,
                   steps, issuedAt, now, ticks>>

\* Ok(warp::reply::json(&RegisterResponse { token }))
Respond(r) ==
    /\ pc[r] = "respond"
    /\ response' = [response EXCEPT ![r] = [status |-> 200, token |-> token[r]]]
    /\ token' = [token EXCEPT ![r] = NoToken]
    /\ pc' = [pc EXCEPT ![r] = "done"]
    /\ steps' = [steps EXCEPT ![r] = Append(@, "respond")]
    /\ UNCHANGED <<req, hashed, store, uniqueIndex, panicAt,
                   issuedAt, now, ticks>>

\* The wall clock read by Utc::now() advances: by one unit, or by a second
\* more than the 24 hours.
Tick ==
    /\ ticks < MaxTicks
    /\ \E d \in {1, (TTL_SECS + 1) * TicksPerSec} : now' = now + d
    /\ ticks' = ticks + 1
    /\ UNCHANGED <<pc, req, hashed, store, uniqueIndex, token, response,
                   panicAt, steps, issuedAt>>

\* The steps register_user takes by itself, without a reply from the store.
HandlerStep(r) ==
    \/ HashOk(r)
    \/ HashErr(r)
    \/ InsertSend(r)
    \/ IssueOk(r)
    \/ IssueErr(r)
    \/ Respond(r)

\* The replies of the store to a pending insert_one.
StoreStep(r) ==
    \/ StoreInsertOk(r)
    \/ StoreInsertDup(r)
    \/ StoreInsertErr(r)

Next ==
    \/ \E r \in Reqs : Receive(r)
    \/ \E r \in Reqs : RejectBody(r)
    \/ \E r \in Reqs : HandlerStep(r)
    \/ \E r \in Reqs : StoreStep(r)
    \/ Tick

Spec == Init /\ [][Next]_vars

\* ------------------------------------------------- vocabulary of the claims

\* register_user was called for request r (its body deserialized).
Invoked(r) == req[r] # NoReq

\* The invocation of r ended by a panic.
Failed(r) == pc[r] = "aborted"

\* The document inserted by the invocation of r, if any.
RecordsOf(r) == {u \in store : u.id = r}

\* The token the invocation of r has built, as a local or in its response.
IssuedToken(r) == IF token[r] # NoToken THEN token[r] ELSE response[r].token

\* Input validation: email non-empty, password of the minimum length.
ValidInput(body) == body.email # "" /\ Len(body.password) >= 8

\* Verification of a token at instant t: valid strictly before expires_at.
TokenValidAt(tok, t) == timestamp(t) < tok.claims.exp

IsPrefix(s, t) == Len(s) <= Len(t) /\ s = SubSeq(t, 1, Len(s))

\* The invocations for email e.
ForEmail(e) == {r \in Reqs : Invoked(r) /\ req[r].email = e}

\* The invocation of r has ended with a response or by the store refusing a
\* duplicate; it met no failure of the hasher, the driver or the signer.
Settled(r) ==
    \/ pc[r] = "done"
    \/ pc[r] = "aborted" /\ panicAt[r] = "insert_dup"

\* ------------------------------------------------------------------ claims

\* C1: N >= 2 concurrent registrations of one email: exactly one succeeds with
\* a token, the other N-1 end with EmailAlreadyRegistered (409), and the store
\* never holds two records with the same email.
C1_OneWinner ==
    /\ \A u, v \in store : u.email = v.email => u = v
    /\ \A r \in Reqs :
          LET same == ForEmail(req[r].email)
          IN (Invoked(r) /\ Cardinality(same) >= 2 /\ \A q \in same : Settled(q))
                => /\ Cardinality({q \in same : response[q].status = 200}) = 1
                   /\ Cardinality({q \in same : response[q].status = 409})
                         = Cardinality(same) - 1

\* C2: when a record with the request's email exists, the store's reply to the
\* insert leaves the store as it is, and the invocation neither goes on to
\* issue a token nor aborts: it fails with EmailAlreadyRegistered.
C2_ExistingEmailRefused ==
    [][\A r \in Reqs :
          (pc[r] = "await" /\ pc'[r] # "await" /\ WithEmail(req[r].email) # {})
             => /\ store' = store
                /\ pc'[r] \notin {"token", "aborted"}
                /\ response'[r].status = 409]_vars

\* C3: a registration that succeeds leaves exactly one record for its email in
\* the store, and its token's email claim is the request's email and the email
\* of the record it inserted.
C3_FreshEmailOneRecord ==
    \A r \in Reqs :
        response[r].status = 200
           => /\ Cardinality(WithEmail(req[r].email)) = 1
              /\ response[r].token.claims.email = req[r].email
              /\ \A u \in RecordsOf(r) : u.email = response[r].token.claims.email

\* C4: within one invocation the steps run in the order hash, persist, issue,
\* respond, each at most once, and a token exists (as a local or in a
\* response) only for an invocation whose insert succeeded.
C4_TokenOnlyAfterInsert ==
    \A r \in Reqs :
        /\ IsPrefix(steps[r], <<"hash", "persist", "issue", "respond">>)
        /\ IssuedToken(r) # NoToken => RecordsOf(r) # {}
        /\ response[r].status = 200 => IssuedToken(r) # NoToken
        /\ panicAt[r] \in {"insert_dup", "insert_err"} => response[r] = NoResponse

\* C4 witness: one invocation went through all four steps and answered with
\* its token, another one's insert failed and it answered nothing.
C4_Witness ==
    \E r, q \in Reqs :
        /\ steps[r] = <<"hash", "persist", "issue", "respond">>
        /\ response[r].status = 200
        /\ panicAt[q] \in {"insert_dup", "insert_err"}

\* C5: an invocation that failed, at whatever step, has left no record of its
\* own in the store.
C5_NoRecordAfterFailure ==
    \A r \in Reqs : Failed(r) => RecordsOf(r) = {}

\* C6: a request with an empty email or a too short password is rejected with
\* InvalidInput (400) before the store is touched: no insert is sent, no record
\* is written, no token is returned.
C6_InvalidInputRejected ==
    \A r \in Reqs :
        (Invoked(r) /\ ~ValidInput(req[r]))
           => /\ pc[r] \notin {"await", "token", "respond"}
              /\ RecordsOf(r) = {}
              /\ response[r].token = NoToken
              /\ pc[r] = "done" => response[r].status = 400

\* C7: no failure of the hasher, the store or the signer aborts the handler:
\* every invocation that has ended has answered, a failed one with 400, 409 or
\* 500 and without a token.
C7_FailuresAreResponses ==
    \A r \in Reqs :
        /\ ~Failed(r)
        /\ (pc[r] = "done" /\ response[r].status # 200)
              => response[r].status \in {400, 409, 500} /\ response[r].token = NoToken

\* C8: the password of every record in the store is the hasher's output for
\* the plaintext of the request that inserted it, and is no request's
\* plaintext password.
C8_OnlyHashesStored ==
    \A u \in store :
        /\ \E s \in Salts : u.password = hash(req[u.id].password, DEFAULT_COST, s)
        /\ \A r \in Reqs : u.password # req[r].password

\* C8 witness: two records hold different hashes of the same plaintext.
C8_Witness ==
    \E u, v \in store :
        /\ u.id # v.id
        /\ req[u.id].password = req[v.id].password
        /\ u.password # v.password

\* C9: every issued token expires 24 hours after the second it was issued in,
\* which is after it was issued; it is valid at every instant before that
\* second, the instant of issuance included, and not valid at any instant
\* after it.
C9_ExpiryIsIssuancePlusTtl ==
    \A r \in Reqs :
        IssuedToken(r) # NoToken =>
            LET tok == IssuedToken(r)
                issued_at == timestamp(issuedAt[r])
            IN /\ tok.claims.exp = issued_at + TTL_SECS
               /\ tok.claims.exp > issued_at
               /\ TokenValidAt(tok, issuedAt[r])
               /\ timestamp(now) < issued_at + TTL_SECS => TokenValidAt(tok, now)
               /\ timestamp(now) > issued_at + TTL_SECS => ~TokenValidAt(tok, now)

\* C9 witness: a token returned more than 24 hours ago has expired, and a
\* token issued since is valid.
C9_Witness ==
    \E r, q \in Reqs :
        /\ response[r].status = 200 /\ response[q].status = 200
        /\ timestamp(now) > timestamp(issuedAt[r]) + TTL_SECS
        /\ ~TokenValidAt(response[r].token, now)
        /\ TokenValidAt(response[q].token, now)

\* C10: an invocation never depends on the store to end: while it waits for
\* the store's reply it can take a step of its own (the timeout that ends it
\* with InternalError), and an error of the store call ends it with a response.
C10_NeverStuckOnStore ==
    \A r \in Reqs :
        /\ pc[r] = "await" => ENABLED HandlerStep(r)
        /\ panicAt[r] = "insert_err" => response[r].status = 500

====
